---- MODULE Spec2Model ----
(***************************************************************************)
(* A model of agar.image (src/agar/image.py): the BaseImage mix-in with    *)
(* its create() factory and its cached get_serving_url(), and the two      *)
(* entity classes Image (db) and NdbImage (ndb) with their delete().       *)
(*                                                                         *)
(* The platform services the module calls are modelled by their state and  *)
(* by the outcomes a call can have:                                        *)
(*   datastore   store    : entity id -> persisted entity                  *)
(*   blobstore   blobs    : blob key  -> stored bytes                      *)
(*   memcache    cache    : cache key -> [url, expires]                    *)
(*   images.get_serving_url / urlfetch / files API: an outcome per call    *)
(* One request runs at a time (pc = "idle" between requests); create() and *)
(* get_serving_url() are stepped through their service calls.              *)
(***************************************************************************)
EXTENDS Integers, Sequences, FiniteSets, TLC

\* ------------------------------------------------------------------ bounds
\* Entities ever created (datastore ids are never reused).
MaxEntities == 2
\* get_serving_url calls made.
MaxUrlCalls == 2
\* The clock advances by half the cache timeout, MaxTicks times.
MaxTicks == 2
\* Calls to the serving-URL service one get_serving_url call may make in the model.
MaxServiceCalls == 5

\* ------------------------------------------------- configuration (ImageConfig)
SERVING_URL_TIMEOUT == 3600
SERVING_URL_LOOKUP_TRIES == 3
VALID_MIME_TYPES == {"image/jpeg", "image/png", "image/gif"}

\* ------------------------------------------------------------------ values
\* Python's None, for the string-valued arguments and fields.
None == "None"
\* The two classes that mix BaseImage in.
Classes == {"Image", "NdbImage"}
\* images.JPEG, images.PNG, images.GIF; "NotImage" is data images.Image cannot read.
JPEG == "JPEG"
PNG == "PNG"
GIF == "GIF"
Formats == {JPEG, PNG, "NotImage"}
\* Image bytes: what they show (pix) and how they are encoded (fmt).
Bytes(pix, fmt) == [pix |-> pix, fmt |-> fmt]
\* data=None.
NoneData == [pix |-> 0, fmt |-> None]
DataArgs == {Bytes(1, f) : f \in Formats}
\* The filename, mime_type, size, crop and secure_url arguments tried.
FilenameArgs == {None, "a.png"}
MimeArgs == {None, "image/gif", "text/html"}
Sizes == {None, "32"}
Crops == {FALSE}
Secures == BOOLEAN
\* URLs by the segments of their path.
UrlArgs == {<<"img", "a.jpg">>}
\* url=None.
NoneUrl == <<None>>
\* A blob uploaded to the blobstore outside this module (an upload handler).
UploadedKey == "upload1"
UploadedData == Bytes(2, JPEG)
\* Half of SERVING_URL_TIMEOUT, the step of the clock.
HalfTimeout == SERVING_URL_TIMEOUT \div 2

EntityIds == 1..MaxEntities

VARIABLES
    store,      \* datastore: persisted entities, by id
    blobs,      \* blobstore: stored bytes, by blob key
    cache,      \* memcache, namespace agar-image-serving-url
    now,        \* the clock, in seconds
    nextId,     \* the next datastore id
    nextBlob,   \* the next blob key files.blobstore.create hands out
    testbed,    \* whether TESTBED_INSTANCE is set (a unit test run)
    pc,         \* where the running request is; "idle" between requests
    loc,        \* the running request's locals
    res,        \* how the last request ended
    urlCalls,   \* get_serving_url calls made so far
    prior       \* per argument tuple, the last completed get_serving_url call

vars == <<store, blobs, cache, now, nextId, nextBlob, testbed, pc, loc, res,
          urlCalls, prior>>

\* ----------------------------------------------------------- the services
\* An entity as the datastore holds it.
Entity(cls, blob_key, source_url) ==
    [cls |-> cls, blob_key |-> blob_key, source_url |-> source_url]

Persisted(id) == id \in DOMAIN store

\* db/ndb put(): write the entity under its id.
Put(st, id, ent) == (id :> ent) @@ st

\* db/ndb delete of an entity by key.
Remove(st, id) == [i \in DOMAIN st \ {id} |-> st[i]]

\* blobstore: whether a blob is stored under the key.
BlobPresent(bl, k) == k \in DOMAIN bl

\* blobstore.delete / BlobInfo.delete: deleting an absent blob is a no-op.
BlobDelete(bl, k) == [b \in DOMAIN bl \ {k} |-> bl[b]]

\* files.blobstore.create + write + finalize, or the stub's CreateBlob.
BlobWrite(bl, k, data) == (k :> data) @@ bl

\* model_key_string: str(key()) or key.urlsafe(); a name without extension.
model_key_string(id) == "key" \o ToString(id)

\* ------------------------------------------------------------ BaseImage
\* image_data: the bytes a BlobReader reads; None with no blob attached.
\* Reading a blob that is not stored raises BlobNotFoundError.
image_data(ent, bl) ==
    IF ent.blob_key # None
    THEN IF BlobPresent(bl, ent.blob_key)
         THEN bl[ent.blob_key]
         ELSE Bytes(0, "BlobNotFoundError")
    ELSE NoneData

\* mimetypes.guess_type(filename)[0], for the filenames tried.
guess_type(filename) ==
    CASE filename = "a.png" -> "image/png"
      [] filename = "a.jpg" -> "image/jpeg"
      [] filename = "a.gif" -> "image/gif"
      [] filename = "a.txt" -> "text/plain"
      [] OTHER -> None

\* x or y
Or(x, y) == IF x # None /\ x # "" THEN x ELSE y

\* path[path.rfind('/')+1:] of urlsplit(url)[2]: the last path segment.
UrlFilename(url) == IF Len(url) = 0 THEN "" ELSE url[Len(url)]

\* urlfetch.fetch(url): the responses tried, content and Content-Type header.
Response(content, ctype) == [content |-> content, ctype |-> ctype]
Responses ==
    { Response(Bytes(1, PNG), None),
      Response(Bytes(1, "NotImage"), "text/html"),
      Response(NoneData, None) }

\* ------------------------------------------------------- create, lines 165-246
\* The sources create() is given.
Source(blob_key, blob_info, data, url) ==
    [blob_key |-> blob_key, blob_info |-> blob_info, data |-> data, url |-> url]

\* Lines 205-208: whether create() fetches the url.
Fetches(src) ==
    src.blob_info = None /\ src.blob_key = None /\ src.data = NoneData /\ src.url # NoneUrl

\* Lines 205-208: the data after the optional fetch.
ResolveData(src, resp) == IF Fetches(src) THEN resp.content ELSE src.data

\* Line 209: mime_type or the response's Content-Type.
ResolveMime(src, mime_type, resp) ==
    IF Fetches(src) THEN Or(mime_type, resp.ctype) ELSE mime_type

\* Lines 210-212: the filename guessed from the url when none is given.
ResolveFilename(src, filename) ==
    IF Fetches(src) /\ filename = None THEN UrlFilename(src.url) ELSE filename

\* The data check forgotten.
NoImageData_Never(data) == FALSE

\* Line 213: if data is None.
NoImageData(data) == data = NoneData

\* Line 216: filename or image.model_key_string.
FinalFilename(filename, id) == Or(filename, model_key_string(id))

\* Line 217: mime_type or guess_type(filename)[0] or 'application/octet-stream'.
FinalMime(mime_type, filename) ==
    Or(Or(mime_type, guess_type(filename)), "application/octet-stream")

\* Line 218: mime_type not in VALID_MIME_TYPES.
InvalidMime(mime_type) == mime_type \notin VALID_MIME_TYPES

\* Lines 223-224: images.Image(data).format raises NotImageError on other data.
IsImage(data) == data.fmt \in {JPEG, PNG, GIF}

\* Every mime type but image/png taken to ask for JPEG.
new_format_Always(mime_type, format) ==
    IF mime_type = "image/png" /\ format # PNG THEN PNG
    ELSE IF format # JPEG THEN JPEG
    ELSE None

\* Lines 225-229: the format to re-encode to, None to keep the bytes.
new_format(mime_type, format) ==
    IF mime_type = "image/png" /\ format # PNG THEN PNG
    ELSE IF mime_type = "image/jpeg" /\ format # JPEG THEN JPEG
    ELSE None

\* Line 231: images.crop(data, 0, 0, 1, 1, output_encoding=new_format).
images_crop(data, output_encoding) == Bytes(data.pix, output_encoding)

\* Lines 230-231: the bytes create() stores.
StoredData(data, mime_type) ==
    IF new_format(mime_type, data.fmt) # None
    THEN images_crop(data, new_format(mime_type, data.fmt))
    ELSE data

\* ------------------------------------------------- delete, lines 284-343
\* Image.delete, lines 290-291: blob_info is the entity's own reference; the
\* blob is deleted through it whether or not it is still stored.
ImageDeleteBlob(ent, bl) ==
    IF ent.blob_key # None THEN BlobDelete(bl, ent.blob_key) ELSE bl

\* The hook leaving the blob alone.
NdbPreDeleteHook_NoDelete(ent, bl) == bl

\* NdbImage._pre_delete_hook, lines 341-343, with get_blob_info, lines 318-321:
\* BlobInfo.get(blob_key) is None for a blob that is not stored.
NdbPreDeleteHook(ent, bl) ==
    IF ent.blob_key # None /\ BlobPresent(bl, ent.blob_key)
    THEN BlobDelete(bl, ent.blob_key)
    ELSE bl

\* The blobstore after delete() of the entity, by class.
DeleteBlobOf(ent, bl) ==
    IF ent.cls = "Image" THEN ImageDeleteBlob(ent, bl) ELSE NdbPreDeleteHook(ent, bl)

\* The entity left in the datastore.
DeleteEntity_Skip(st, id) == st

\* Line 292, super(Image, self).delete(), and line 337, self.key.delete().
DeleteEntity(st, id) == Remove(st, id)


\* ------------------------------------------- get_serving_url, lines 114-146
\* Line 131: key = "%s-%s-%s" % (self.model_key, size, crop).
CacheKey(id, size, crop) ==
    model_key_string(id) \o "-" \o size \o "-" \o (IF crop THEN "True" ELSE "False")

\* images.get_serving_url(blob_key, size, crop, secure_url): the URL the platform
\* serves the blob at.
ServiceUrl(blob_key, size, crop, secure_url) ==
    (IF secure_url THEN "https://" ELSE "http://") \o "lh/" \o blob_key
    \o (IF size # None THEN "=s" \o size ELSE "")
    \o (IF crop THEN "-c" ELSE "")

\* A memcache entry; NoEntry where the key holds none.
Entry(value, expires) == [value |-> value, expires |-> expires]
NoEntry == Entry(None, 0)
EntryAt(c, key) == IF key \in DOMAIN c THEN c[key] ELSE NoEntry

\* A lookup that never finds the entry.
MemcacheGet_AlwaysMiss(c, key, t, up) == None

\* Line 132: memcache.get(key): the value of an entry that has not expired; None
\* on a miss, and None when the memcache service fails (up = FALSE): the
\* memcache client answers a service error with None, it does not raise.
MemcacheGet(c, key, t, up) ==
    IF up /\ key \in DOMAIN c /\ c[key].expires > t THEN c[key].value ELSE None

\* Line 145: memcache.set(key, serving_url, time=SERVING_URL_TIMEOUT); nothing
\* is stored when the memcache service fails (the client answers False, which
\* the code does not look at).
MemcacheSet(c, key, value, t, up) ==
    IF up THEN (key :> Entry(value, t + SERVING_URL_TIMEOUT)) @@ c ELSE c

\* The None check forgotten.
ShouldStore_Always(serving_url) == TRUE

\* Line 144: if serving_url is not None.
ShouldStore(serving_url) == serving_url # None

\* tries counted after the service call, so not when the call raises.
NextTries_AfterCall(tries, outcome) == IF outcome = "raise" THEN tries ELSE tries + 1

\* Line 137: tries += 1, before the service is called.
NextTries(tries, outcome) == tries + 1

\* No except clause around the service call.
ExceptException_Never(outcome) == FALSE

\* Line 141: except Exception catches what the service raises.
ExceptException(outcome) == outcome = "raise"

\* Lines 138-140: serving_url after the attempt: the service's URL, or None when
\* the service returned None or raised.
AttemptUrl(outcome, blob_key, size, crop, secure_url) ==
    IF outcome = "url" THEN ServiceUrl(blob_key, size, crop, secure_url) ELSE None

\* Lines 135 and 139-140: whether the loop runs another attempt.
LoopAgain(tries, serving_url) ==
    serving_url = None /\ tries < SERVING_URL_LOOKUP_TRIES

\* ------------------------------------------------------------ results
CreateResult(status, err, id, given) ==
    [op |-> "create", status |-> status, err |-> err, id |-> id, given |-> given]

DeleteResult(id, ent) ==
    [op |-> "delete", status |-> "ok", err |-> None, id |-> id, ent |-> ent]

ArgKey(id, size, crop, secure_url) ==
    CacheKey(id, size, crop) \o (IF secure_url THEN "-secure" ELSE "-plain")

\* What is remembered of a completed get_serving_url call.
Call(value, at, entry) == [called |-> TRUE, value |-> value, at |-> at, entry |-> entry]
NoCall == [called |-> FALSE, value |-> None, at |-> 0, entry |-> NoEntry]
PriorCall(k) == IF k \in DOMAIN prior THEN prior[k] ELSE NoCall

NoLocals == [none |-> TRUE]

\* ------------------------------------------------------------ Init
Init ==
    /\ store = <<>>
    /\ blobs = (UploadedKey :> UploadedData)
    /\ cache = <<>>
    /\ now = 0
    /\ nextId = 1
    /\ nextBlob = 1
    /\ testbed \in BOOLEAN
    /\ pc = "idle"
    /\ loc = NoLocals
    /\ res = [op |-> "none", status |-> "ok", err |-> None]
    /\ urlCalls = 0
    /\ prior = <<>>

urlVars == <<cache, now, urlCalls, prior>>

\* ------------------------------------------------------------ create
\* Lines 193-198: blob_info given; the entity is constructed and put.
CreateFromBlobInfo(cls, blob_key, blob_info) ==
    /\ pc = "idle" /\ nextId <= MaxEntities
    /\ blob_info # None
    /\ store' = Put(store, nextId, Entity(cls, blob_info, NoneUrl))
    /\ nextId' = nextId + 1
    /\ res' = CreateResult("ok", None, nextId, blob_info)
    /\ UNCHANGED <<blobs, nextBlob, testbed, pc, loc, urlVars>>

\* Lines 199-204: blob_key given and no blob_info.
CreateFromBlobKey(cls, blob_key, blob_info) ==
    /\ pc = "idle" /\ nextId <= MaxEntities
    /\ blob_info = None /\ blob_key # None
    /\ store' = Put(store, nextId, Entity(cls, blob_key, NoneUrl))
    /\ nextId' = nextId + 1
    /\ res' = CreateResult("ok", None, nextId, blob_key)
    /\ UNCHANGED <<blobs, nextBlob, testbed, pc, loc, urlVars>>

\* Line 207: urlfetch.fetch raises (DownloadError); nothing has been written.
CreateFetchFails(src) ==
    /\ pc = "idle"
    /\ Fetches(src)
    /\ res' = CreateResult("error", "DownloadError", 0, None)
    /\ UNCHANGED <<store, blobs, nextId, nextBlob, testbed, pc, loc, urlVars>>

\* Lines 213-214: no data given and none fetched: db.Error("No image data").
CreateNoData(src, resp) ==
    /\ pc = "idle"
    /\ src.blob_info = None /\ src.blob_key = None
    /\ NoImageData(ResolveData(src, resp))
    /\ res' = CreateResult("error", "No image data", 0, None)
    /\ UNCHANGED <<store, blobs, nextId, nextBlob, testbed, pc, loc, urlVars>>

\* Line 215: the placeholder entity is put, with no blob attached yet.
CreatePlaceholder(cls, src, filename, mime_type, resp) ==
    /\ pc = "idle" /\ nextId <= MaxEntities
    /\ src.blob_info = None /\ src.blob_key = None
    /\ ~NoImageData(ResolveData(src, resp))
    /\ store' = Put(store, nextId, Entity(cls, None, src.url))
    /\ nextId' = nextId + 1
    /\ pc' = "create_validate"
    /\ loc' = [image |-> nextId, src |-> src,
               data |-> ResolveData(src, resp),
               filename |-> ResolveFilename(src, filename),
               mime_type |-> ResolveMime(src, mime_type, resp)]
    /\ UNCHANGED <<blobs, nextBlob, testbed, res, urlVars>>

\* Lines 216-222: the mime type is not allowed: image.delete(), BadImageError.
CreateRejectMime ==
    /\ pc = "create_validate"
    /\ LET filename == FinalFilename(loc.filename, loc.image)
           mime_type == FinalMime(loc.mime_type, filename)
       IN /\ InvalidMime(mime_type)
          /\ blobs' = DeleteBlobOf(store[loc.image], blobs)
          /\ store' = DeleteEntity(store, loc.image)
          /\ res' = CreateResult("error", "BadImageError", loc.image, None)
    /\ pc' = "idle" /\ loc' = NoLocals
    /\ UNCHANGED <<nextId, nextBlob, testbed, urlVars>>

\* Lines 223-224: the data is no image: NotImageError leaves create().
CreateNotImage ==
    /\ pc = "create_validate"
    /\ LET filename == FinalFilename(loc.filename, loc.image)
           mime_type == FinalMime(loc.mime_type, filename)
       IN /\ ~InvalidMime(mime_type)
          /\ ~IsImage(loc.data)
          /\ res' = CreateResult("error", "NotImageError", loc.image, None)
    /\ pc' = "idle" /\ loc' = NoLocals
    /\ UNCHANGED <<store, blobs, nextId, nextBlob, testbed, urlVars>>

\* Line 231: images.crop raises (the transform fails).
CreateCropFails ==
    /\ pc = "create_validate"
    /\ LET filename == FinalFilename(loc.filename, loc.image)
           mime_type == FinalMime(loc.mime_type, filename)
       IN /\ ~InvalidMime(mime_type)
          /\ IsImage(loc.data)
          /\ new_format(mime_type, loc.data.fmt) # None
          /\ res' = CreateResult("error", "TransformationError", loc.image, None)
    /\ pc' = "idle" /\ loc' = NoLocals
    /\ UNCHANGED <<store, blobs, nextId, nextBlob, testbed, urlVars>>

\* Lines 216-231: the data is accepted, and re-encoded where the mime type asks.
CreateValidate ==
    /\ pc = "create_validate"
    /\ LET filename == FinalFilename(loc.filename, loc.image)
           mime_type == FinalMime(loc.mime_type, filename)
       IN /\ ~InvalidMime(mime_type)
          /\ IsImage(loc.data)
          /\ loc' = [image |-> loc.image, src |-> loc.src, orig |-> loc.data,
                     data |-> StoredData(loc.data, mime_type),
                     filename |-> filename, mime_type |-> mime_type]
    /\ pc' = "create_write"
    /\ UNCHANGED <<store, blobs, nextId, nextBlob, testbed, res, urlVars>>

\* Lines 233-237 and 245: the blob is written and finalized, its key attached.
CreateWrite ==
    /\ pc = "create_write"
    /\ LET key == "blob" \o ToString(nextBlob)
       IN /\ blobs' = BlobWrite(blobs, key, loc.data)
          /\ store' = Put(store, loc.image,
                          Entity(store[loc.image].cls, key, store[loc.image].source_url))
    /\ nextBlob' = nextBlob + 1
    /\ res' = CreateResult("ok", None, loc.image, None)
    /\ pc' = "idle" /\ loc' = NoLocals
    /\ UNCHANGED <<nextId, testbed, urlVars>>

\* Lines 238-245: the files API raises AssertionError under a testbed; the blob
\* is created in the blobstore stub under the filename.
CreateWriteTestbed ==
    /\ pc = "create_write"
    /\ testbed
    /\ blobs' = BlobWrite(blobs, loc.filename, loc.data)
    /\ store' = Put(store, loc.image,
                    Entity(store[loc.image].cls, loc.filename,
                           store[loc.image].source_url))
    /\ res' = CreateResult("ok", None, loc.image, None)
    /\ pc' = "idle" /\ loc' = NoLocals
    /\ UNCHANGED <<nextId, nextBlob, testbed, urlVars>>

\* Lines 233-243: the files API raises another error, or AssertionError with
\* TESTBED_INSTANCE None (an AttributeError in the handler): it leaves create().
CreateWriteFails ==
    /\ pc = "create_write"
    /\ res' = CreateResult("error", "BlobstoreError", loc.image, None)
    /\ pc' = "idle" /\ loc' = NoLocals
    /\ UNCHANGED <<store, blobs, nextId, nextBlob, testbed, urlVars>>

\* ------------------------------------------------------------ delete
\* Image.delete (284-292) and NdbImage.delete with its pre-delete hook (331-343),
\* on a persisted entity.
Delete(id) ==
    /\ pc = "idle"
    /\ Persisted(id)
    /\ blobs' = DeleteBlobOf(store[id], blobs)
    /\ store' = DeleteEntity(store, id)
    /\ res' = DeleteResult(id, store[id])
    /\ UNCHANGED <<nextId, nextBlob, testbed, pc, loc, urlVars>>

\* ------------------------------------------------------ get_serving_url
\* What a completed get_serving_url call did: its result (value), the calls it
\* made to the serving-URL service (calls) and how many of them failed (failed),
\* what memcache.get answered (lookup) and the entry the key held then (entry),
\* the memcache.set call it made (set), and the previous call with the same
\* arguments (before).
UrlResult(status, id, size, crop, secure_url, value, calls, failed, lookup, entry, set) ==
    [op |-> "get_serving_url", status |-> status, err |-> None, id |-> id,
     size |-> size, crop |-> crop, secure_url |-> secure_url, value |-> value,
     calls |-> calls, failed |-> failed, lookup |-> lookup, entry |-> entry,
     set |-> set, at |-> now,
     before |-> PriorCall(ArgKey(id, size, crop, secure_url))]

SetCall(key, value, time, ok) ==
    [key |-> key, value |-> value, time |-> time, ok |-> ok]
NoSet == SetCall(None, None, 0, FALSE)

Remember(id, size, crop, secure_url, value, c) ==
    (ArgKey(id, size, crop, secure_url)
        :> Call(value, now, EntryAt(c, CacheKey(id, size, crop)))) @@ prior

\* Lines 128-129 and 146: no blob attached: None, with no service called.
GsuNoBlob(id, size, crop, secure_url) ==
    /\ pc = "idle" /\ urlCalls < MaxUrlCalls
    /\ Persisted(id)
    /\ store[id].blob_key = None
    /\ urlCalls' = urlCalls + 1
    /\ res' = UrlResult("ok", id, size, crop, secure_url, None, 0, 0, "none",
                        NoEntry, NoSet)
    /\ prior' = Remember(id, size, crop, secure_url, None, cache)
    /\ UNCHANGED <<store, blobs, cache, now, nextId, nextBlob, testbed, pc, loc>>

\* Lines 130-133 and 146: memcache.get finds the URL, which is returned.
GsuHit(id, size, crop, secure_url, up) ==
    /\ pc = "idle" /\ urlCalls < MaxUrlCalls
    /\ Persisted(id)
    /\ store[id].blob_key # None
    /\ LET key == CacheKey(id, size, crop)
           serving_url == MemcacheGet(cache, key, now, up)
       IN /\ serving_url # None
          /\ res' = UrlResult("ok", id, size, crop, secure_url, serving_url, 0, 0,
                              "hit", EntryAt(cache, key), NoSet)
          /\ prior' = Remember(id, size, crop, secure_url, serving_url, cache)
    /\ urlCalls' = urlCalls + 1
    /\ UNCHANGED <<store, blobs, cache, now, nextId, nextBlob, testbed, pc, loc>>

\* Lines 130-135: memcache.get answers None (no entry, an expired entry, or the
\* memcache service failing): the lookup loop is entered with tries = 0.
GsuMiss(id, size, crop, secure_url, up) ==
    /\ pc = "idle" /\ urlCalls < MaxUrlCalls
    /\ Persisted(id)
    /\ store[id].blob_key # None
    /\ LET key == CacheKey(id, size, crop)
       IN /\ MemcacheGet(cache, key, now, up) = None
          /\ loc' = [id |-> id, size |-> size, crop |-> crop,
                     secure_url |-> secure_url, blob_key |-> store[id].blob_key,
                     key |-> key, tries |-> 0, serving_url |-> None,
                     calls |-> 0, failed |-> 0,
                     lookup |-> IF up THEN "miss" ELSE "failed",
                     entry |-> EntryAt(cache, key)]
    /\ pc' = IF LoopAgain(0, None) THEN "gsu_loop" ELSE "gsu_store"
    /\ urlCalls' = urlCalls + 1
    /\ UNCHANGED <<store, blobs, cache, now, nextId, nextBlob, testbed, res, prior>>

\* Lines 135-143: one attempt: the service answers a URL, answers None, or
\* raises; an exception the except clause does not catch leaves the call.
GsuTry(outcome) ==
    /\ pc = "gsu_loop"
    /\ loc.calls < MaxServiceCalls
    /\ LET tries == NextTries(loc.tries, outcome)
           serving_url == AttemptUrl(outcome, loc.blob_key, loc.size, loc.crop,
                                     loc.secure_url)
           failed == loc.failed + (IF outcome = "url" THEN 0 ELSE 1)
       IN IF outcome = "raise" /\ ~ExceptException(outcome)
          THEN /\ pc' = "idle" /\ loc' = NoLocals
               /\ res' = UrlResult("raised", loc.id, loc.size, loc.crop,
                                   loc.secure_url, None, loc.calls + 1, failed,
                                   loc.lookup, loc.entry, NoSet)
               /\ prior' = Remember(loc.id, loc.size, loc.crop, loc.secure_url,
                                    None, cache)
          ELSE /\ loc' = [loc EXCEPT !.tries = tries, !.serving_url = serving_url,
                                     !.calls = loc.calls + 1, !.failed = failed]
               /\ pc' = IF LoopAgain(tries, serving_url) THEN "gsu_loop"
                        ELSE "gsu_store"
               /\ UNCHANGED <<res, prior>>
    /\ UNCHANGED <<store, blobs, cache, now, nextId, nextBlob, testbed, urlCalls>>

\* Lines 144-146: the URL obtained is stored in memcache, and returned.
GsuStore(up) ==
    /\ pc = "gsu_store"
    /\ LET stores == ShouldStore(loc.serving_url)
           c == IF stores
                THEN MemcacheSet(cache, loc.key, loc.serving_url, now, up)
                ELSE cache
       IN /\ cache' = c
          /\ res' = UrlResult("ok", loc.id, loc.size, loc.crop, loc.secure_url,
                              loc.serving_url, loc.calls, loc.failed, loc.lookup,
                              loc.entry,
                              IF stores
                              THEN SetCall(loc.key, loc.serving_url,
                                           SERVING_URL_TIMEOUT, up)
                              ELSE NoSet)
          /\ prior' = Remember(loc.id, loc.size, loc.crop, loc.secure_url,
                               loc.serving_url, c)
    /\ pc' = "idle" /\ loc' = NoLocals
    /\ UNCHANGED <<store, blobs, now, nextId, nextBlob, testbed, urlCalls>>

\* ------------------------------------------------------------ memcache
\* memcache evicts an entry before its time (memory pressure, a flush).
Evict(key) ==
    /\ pc = "idle"
    /\ key \in DOMAIN cache
    /\ cache' = [k \in DOMAIN cache \ {key} |-> cache[k]]
    /\ UNCHANGED <<store, blobs, now, nextId, nextBlob, testbed, pc, loc, res,
                   urlCalls, prior>>

\* Time passes between requests.
AdvanceTime ==
    /\ pc = "idle"
    /\ now + HalfTimeout <= MaxTicks * HalfTimeout
    /\ now' = now + HalfTimeout
    /\ UNCHANGED <<store, blobs, cache, nextId, nextBlob, testbed, pc, loc, res,
                   urlCalls, prior>>

\* ------------------------------------------------------------ Spec
\* The blob keys a caller holds: those of the blobs in the blobstore.
BlobArgs == DOMAIN blobs
\* The sources without a blob: data, a url, or neither.
DataSources ==
    {Source(None, None, NoneData, NoneUrl)}
    \cup {Source(None, None, d, NoneUrl) : d \in DataArgs}
    \cup {Source(None, None, NoneData, u) : u \in UrlArgs}

Next ==
    \/ \E cls \in Classes, k \in BlobArgs : CreateFromBlobInfo(cls, None, k)
    \/ \E cls \in Classes, k \in BlobArgs : CreateFromBlobKey(cls, k, None)
    \/ \E src \in DataSources : CreateFetchFails(src)
    \/ \E src \in DataSources, resp \in Responses : CreateNoData(src, resp)
    \/ \E cls \in Classes, src \in DataSources, filename \in FilenameArgs,
          mime_type \in MimeArgs, resp \in Responses :
            CreatePlaceholder(cls, src, filename, mime_type, resp)
    \/ CreateRejectMime
    \/ CreateNotImage
    \/ CreateCropFails
    \/ CreateValidate
    \/ CreateWrite
    \/ CreateWriteTestbed
    \/ CreateWriteFails
    \/ \E id \in EntityIds : Delete(id)

Spec == Init /\ [][Next]_vars

\* ------------------------------------------------------------ UrlSpec
\* get_serving_url with memcache and the clock, from a datastore that create()
\* has filled: entity 1 was created from the uploaded blob, entity 2 is a
\* placeholder that a failed create() left without a blob. UrlInit is a state
\* that Spec reaches: Image.create(blob_key=upload1), then NdbImage.create of
\* data that is no image, with an allowed mime type.
ServiceOutcomes == {"url", "none", "raise"}

UrlInit ==
    /\ store = (1 :> Entity("Image", UploadedKey, NoneUrl))
               @@ (2 :> Entity("NdbImage", None, NoneUrl))
    /\ blobs = (UploadedKey :> UploadedData)
    /\ cache = <<>>
    /\ now = 0
    /\ nextId = 3
    /\ nextBlob = 1
    /\ testbed = FALSE
    /\ pc = "idle"
    /\ loc = NoLocals
    /\ res = CreateResult("error", "NotImageError", 2, None)
    /\ urlCalls = 0
    /\ prior = <<>>

UrlNext ==
    \/ \E id \in DOMAIN store, size \in Sizes, crop \in Crops, secure_url \in Secures :
            GsuNoBlob(id, size, crop, secure_url)
    \/ \E id \in DOMAIN store, size \in Sizes, crop \in Crops, secure_url \in Secures,
          up \in BOOLEAN : GsuHit(id, size, crop, secure_url, up)
    \/ \E id \in DOMAIN store, size \in Sizes, crop \in Crops, secure_url \in Secures,
          up \in BOOLEAN : GsuMiss(id, size, crop, secure_url, up)
    \/ \E outcome \in ServiceOutcomes : GsuTry(outcome)
    \/ \E up \in BOOLEAN : GsuStore(up)
    \/ \E key \in DOMAIN cache : Evict(key)
    \/ AdvanceTime

UrlSpec == UrlInit /\ [][UrlNext]_vars

\* A running get_serving_url call goes on: each service call returns, and the
\* code after the loop runs.
UrlLive ==
    /\ UrlSpec
    /\ WF_vars(\E outcome \in ServiceOutcomes : GsuTry(outcome))
    /\ WF_vars(\E up \in BOOLEAN : GsuStore(up))

\* ================================================================ claims
\* ---------------------------------------------------------------- C1
\* C1: once delete() of a persisted entity has completed, the entity is no
\* longer persisted and the blob it referenced is no longer in the blobstore,
\* for an Image and for an NdbImage.
C1_DeleteRemovesEntityAndBlob ==
    res.op = "delete" =>
        /\ ~Persisted(res.id)
        /\ res.ent.blob_key # None => ~BlobPresent(blobs, res.ent.blob_key)

\* An NdbImage with a blob attached has been deleted.
C1_Witness ==
    /\ res.op = "delete"
    /\ res.ent.cls = "NdbImage"
    /\ res.ent.blob_key = UploadedKey
    /\ ~BlobPresent(blobs, UploadedKey)

\* ---------------------------------------------------------------- C2
\* C2: in every state that create() and delete() calls reach, every persisted
\* entity with a blob reference refers to a blob that is in the blobstore.
C2_BlobReferencesPresent ==
    \A id \in DOMAIN store :
        store[id].blob_key # None => BlobPresent(blobs, store[id].blob_key)

\* ---------------------------------------------------------------- C5
\* C5: when the mime type create() resolves for data or a url is not in
\* VALID_MIME_TYPES, create() ends with an error and the placeholder entity it
\* had put is no longer persisted.
C5_RejectedMimeLeavesNoEntity ==
    [][ ( /\ pc = "create_validate"
          /\ Or(Or(loc.mime_type,
                   guess_type(Or(loc.filename, model_key_string(loc.image)))),
                "application/octet-stream") \notin VALID_MIME_TYPES )
        => ( /\ pc' = "idle"
             /\ res'.op = "create" /\ res'.status = "error"
             /\ res'.err = "BadImageError"
             /\ loc.image \in DOMAIN store
             /\ loc.image \notin DOMAIN store' ) ]_vars

\* A create() has been rejected for its mime type, and its placeholder is gone.
C5_Witness ==
    /\ pc = "idle"
    /\ res.op = "create" /\ res.err = "BadImageError"
    /\ ~Persisted(res.id)
    /\ nextId > res.id

\* ---------------------------------------------------------------- C6
\* C6: after a successful create() the entity's image_data is the bytes of the
\* source: the content of the blob given, or the data given or fetched unless
\* the mime type was image/jpeg or image/png and the format detected differed.
C6_ImageDataRoundTrips ==
    [][ /\ ( pc = "idle" /\ pc' = "idle" /\ nextId' = nextId + 1 )
           => ( /\ res'.given \in DOMAIN blobs
                /\ store'[nextId].blob_key = res'.given
                /\ image_data(store'[nextId], blobs') = blobs[res'.given] )
        /\ ( /\ pc = "create_write" /\ pc' = "idle" /\ res'.status = "ok"
             /\ ~ \/ loc.mime_type = "image/jpeg" /\ loc.orig.fmt # JPEG
                  \/ loc.mime_type = "image/png" /\ loc.orig.fmt # PNG )
           => image_data(store'[loc.image], blobs') = loc.orig ]_vars

\* A create() from a url has stored the fetched bytes as they were.
C6_Witness ==
    /\ pc = "idle"
    /\ res.op = "create" /\ res.status = "ok" /\ res.given = None
    /\ Persisted(res.id)
    /\ store[res.id].source_url # NoneUrl
    /\ image_data(store[res.id], blobs) = Bytes(1, PNG)

\* ---------------------------------------------------------------- C8
\* C8: a create() with no blob_key, no blob_info and no data (none given and
\* none fetched) ends with the error "No image data", with no entity put and
\* no blob written: no placeholder is ever put for a call without data.
C8_NoDataFailsBeforeAnyWrite ==
    /\ [](pc \in {"create_validate", "create_write"} => loc.data # NoneData)
    /\ [][ ( /\ pc = "idle" /\ pc' = "idle"
             /\ res'.op = "create" /\ res'.err = "No image data" )
           => UNCHANGED <<store, blobs, nextId, nextBlob>> ]_vars

\* A create() without data has failed while an entity and its blob exist.
C8_Witness ==
    /\ res.op = "create" /\ res.status = "error" /\ res.err = "No image data"
    /\ store # <<>>

\* ---------------------------------------------------------------- C3
\* C3 as stated: of two get_serving_url calls with the same arguments, the
\* second made before the cache timeout has passed since the first, the second
\* returns what the first returned and calls the serving-URL service not once.
C3_SecondCallSameWithoutService ==
    ( /\ res.op = "get_serving_url"
      /\ res.before.called
      /\ store[res.id].blob_key # None
      /\ res.at < res.before.at + SERVING_URL_TIMEOUT )
    => ( res.value = res.before.value /\ res.calls = 0 )

\* C3 as amended: when the first call returned a URL, and the memcache entry
\* that held it when the first call returned is still there, unexpired, at the
\* second call's lookup, and that lookup does not fail, then the second call
\* returns the same URL and calls the serving-URL service not once.
C3_CachedSecondCall ==
    ( /\ res.op = "get_serving_url"
      /\ res.before.called
      /\ res.before.value # None
      /\ res.before.entry.value = res.before.value
      /\ res.entry = res.before.entry
      /\ res.entry.expires > res.at
      /\ res.lookup # "failed" )
    => ( res.status = "ok" /\ res.value = res.before.value /\ res.calls = 0 )

\* A second call, later than the first, has been answered from the cache.
C3_Witness ==
    /\ res.op = "get_serving_url"
    /\ res.before.called /\ res.before.value # None
    /\ res.before.entry.value = res.before.value
    /\ res.at > res.before.at
    /\ res.lookup = "hit" /\ res.entry = res.before.entry
    /\ res.value = res.before.value /\ res.calls = 0

\* ---------------------------------------------------------------- C4
\* C4 as stated: get_serving_url never raises, and whenever the cache lookup,
\* an attempt of the serving-URL service or the cache store fails, it returns
\* None.
C4_AnyFailureGivesNone ==
    res.op = "get_serving_url" =>
        /\ res.status = "ok"
        /\ ( \/ res.lookup = "failed"
             \/ res.failed > 0
             \/ (res.set # NoSet /\ ~res.set.ok) )
           => res.value = None

\* C4 as amended: get_serving_url never raises; it returns None exactly when
\* no blob is attached or the lookup missed and every one of the
\* SERVING_URL_LOOKUP_TRIES attempts failed, and a URL otherwise, whatever
\* failed before.
C4_NeverRaises ==
    res.op = "get_serving_url" =>
        /\ res.status = "ok"
        /\ res.value = None <=>
             \/ store[res.id].blob_key = None
             \/ (res.lookup # "hit" /\ res.failed = SERVING_URL_LOOKUP_TRIES)

\* A call whose lookup failed, whose first attempts raised or gave None and
\* whose store failed has returned a URL.
C4_Witness ==
    /\ res.op = "get_serving_url" /\ res.status = "ok"
    /\ res.lookup = "failed" /\ res.failed = 2
    /\ res.set # NoSet /\ ~res.set.ok
    /\ res.value # None

\* ---------------------------------------------------------------- C7
\* C7: after a miss one call makes at most SERVING_URL_LOOKUP_TRIES calls to
\* the serving-URL service, one per pass of the loop; the loop is left at the
\* first URL; the call returns None when all the attempts failed; and the call
\* terminates.
C7_LoopInvariant ==
    /\ pc \in {"gsu_loop", "gsu_store"} =>
         /\ loc.calls = loc.tries
         /\ loc.calls <= SERVING_URL_LOOKUP_TRIES
         /\ loc.serving_url # None => loc.calls = loc.failed + 1
    /\ pc = "gsu_loop" =>
         /\ loc.serving_url = None
         /\ loc.tries < SERVING_URL_LOOKUP_TRIES
    /\ res.op = "get_serving_url" =>
         /\ res.calls <= SERVING_URL_LOOKUP_TRIES
         /\ res.failed = SERVING_URL_LOOKUP_TRIES => res.value = None
         /\ (res.lookup \in {"miss", "failed"} /\ res.value # None)
              => res.calls = res.failed + 1

C7_BoundedRetries ==
    /\ []C7_LoopInvariant
    /\ [][pc = "gsu_loop" /\ pc' = "gsu_loop" => loc'.tries = loc.tries + 1]_vars
    /\ (pc \in {"gsu_loop", "gsu_store"}) ~> (pc = "idle")

\* A call has made all its attempts, each failed, and has returned None.
C7_Witness ==
    /\ pc = "idle"
    /\ res.op = "get_serving_url"
    /\ res.calls = SERVING_URL_LOOKUP_TRIES
    /\ res.failed = SERVING_URL_LOOKUP_TRIES
    /\ res.value = None

\* ---------------------------------------------------------------- C9
\* C9: a URL that get_serving_url returns is the URL the platform's
\* get_serving_url gives for the entity's blob with the same size, crop and
\* secure_url.
C9_ResultIsPlatformUrl ==
    ( res.op = "get_serving_url" /\ res.value # None )
    => res.value = ServiceUrl(store[res.id].blob_key, res.size, res.crop,
                              res.secure_url)

\* ---------------------------------------------------------------- C10
\* C10: get_serving_url calls memcache.set only with a URL it obtained from the
\* service after a miss, under the key of (entity key, size, crop) and with
\* SERVING_URL_TIMEOUT; None is never in the cache; and a call that misses (no
\* entry, an evicted or an expired one) asks the service again and stores what
\* it obtained.
C10_CacheState ==
    /\ \A k \in DOMAIN cache : cache[k].value # None
    /\ (res.op = "get_serving_url" /\ res.status = "ok") =>
         /\ res.set # NoSet <=> (res.lookup \in {"miss", "failed"} /\ res.value # None)
         /\ res.set # NoSet =>
              /\ res.set.key = "key" \o ToString(res.id) \o "-" \o res.size \o "-"
                               \o (IF res.crop THEN "True" ELSE "False")
              /\ res.set.value = res.value
              /\ res.set.time = SERVING_URL_TIMEOUT
         /\ (res.lookup \in {"miss", "failed"} /\ res.value # None) =>
              /\ res.calls >= 1
              /\ res.value = ServiceUrl(store[res.id].blob_key, res.size, res.crop,
                                        res.secure_url)

C10_StoresOnlyObtainedUrls ==
    /\ []C10_CacheState
    /\ [][ cache' # cache =>
             \/ /\ pc = "idle"
                /\ DOMAIN cache' \subseteq DOMAIN cache
                /\ \A k \in DOMAIN cache' : cache'[k] = cache[k]
             \/ /\ pc = "gsu_store"
                /\ loc.serving_url # None
                /\ res'.set.ok
                /\ cache' = (res'.set.key
                               :> Entry(loc.serving_url, now + SERVING_URL_TIMEOUT))
                            @@ cache ]_vars

\* A call has found its entry expired, asked the service again and stored the
\* URL again.
C10_Witness ==
    /\ pc = "idle"
    /\ res.op = "get_serving_url"
    /\ res.lookup = "miss"
    /\ res.entry # NoEntry /\ res.entry.expires <= res.at
    /\ res.calls >= 1
    /\ res.set # NoSet /\ res.set.ok
    /\ EntryAt(cache, res.set.key) = Entry(res.value, res.at + SERVING_URL_TIMEOUT)

\* ---------------------------------------------------------------- C11
\* C11: every create() call that ends in an error (missing data, a mime type
\* not allowed, data that is no image, a failed re-encode, a failed blob write)
\* leaves the set of persisted entities as it was before the call: the
\* placeholder entity the call had put is not persisted any more.
C11_FailedCreateLeavesNoEntity ==
    [][ ( pc' = "idle" /\ res'.op = "create" /\ res'.status = "error" )
        => DOMAIN store' = ( IF pc = "idle"
                             THEN DOMAIN store
                             ELSE DOMAIN store \ {loc.image} ) ]_vars

====
